---- MODULE Spec2Model ----
(***************************************************************************)
(* Model of pkg/manager/watch_endpoints.go (kube-vip).                     *)
(*                                                                         *)
(*  - watchEndpoint: the event loop over the retry watcher's result        *)
(*    channel, the supervising goroutine that waits for shutdown or exit,  *)
(*    and the election-runner goroutines the loop launches;                *)
(*  - updateServiceEndpointAnnotation: get / copy / set / update under     *)
(*    retry.RetryOnConflict(retry.DefaultRetry, ...).                      *)
(*                                                                         *)
(* Each goroutine is a process with a program counter named after the      *)
(* source line it is about to execute.  A step performs at most one        *)
(* operation on state shared between goroutines.                           *)
(***************************************************************************)
EXTENDS Naturals, Sequences, FiniteSets

(***************************************************************************)
(* Bounds of the model.                                                    *)
(***************************************************************************)
MaxEvents == 3
MaxWrites == 5

\* retry.DefaultRetry: the number of attempts RetryOnConflict makes
DefaultRetrySteps == 5

(***************************************************************************)
(* Inputs.                                                                 *)
(***************************************************************************)
\* the id argument of watchEndpoint: the name of this node
id == "node-1"

\* An EndpointAddress: NodeName is a *string, <<>> is the nil pointer and
\* <<n>> points to n.
Address(ip, nodeName) == [IP |-> ip, NodeName |-> nodeName]

Local(ip) == Address(ip, <<"node-1">>)
Remote(ip) == Address(ip, <<"node-2">>)
Unscheduled(ip) == Address(ip, <<>>)

\* ep.Subsets of the v1.Endpoints objects the watch delivers: sequences of
\* subsets, each a sequence of addresses.
Snapshots ==
    { <<>>,
      << <<Remote("10.0.0.6"), Unscheduled("10.0.0.5")>> >>,
      << <<Local("10.0.0.5")>> >>,
      << <<Local("10.0.0.5"), Remote("10.0.0.6")>> >>,
      << <<Unscheduled("10.0.0.5")>>, <<Local("10.0.0.6")>> >>,
      << <<Local("10.0.0.5")>>, <<Remote("10.0.0.7"), Local("10.0.0.6")>> >>,
      << <<Local("10.0.0.6"), Local("10.0.0.5")>> >> }

EventTypes == {"Added", "Modified", "Deleted", "Error"}

\* A watch.Event: its Type, whether Object is a *v1.Endpoints, and the
\* Subsets of that object (<<>> when the event carries something else).
WatchEvents ==
    [Type : {"Added", "Modified"}, isEndpoints : {TRUE}, Subsets : Snapshots]
    \cup [Type : EventTypes, isEndpoints : {FALSE}, Subsets : {<<>>}]

NoEvent == [Type |-> "none", isEndpoints |-> FALSE, Subsets |-> <<>>]

\* The loop variable after its event has been handled: the object is not
\* referenced again, the type of the last event stays.
Handled(e) == [Type |-> e.Type, isEndpoints |-> FALSE, Subsets |-> <<>>]

\* positions of an election-runner goroutine (lines 115-132)
RunnerPcs == {"l119", "l120", "l121", "election", "l122", "l127", "l131", "exit"}

VARIABLES
    pc,                     \* position of watchEndpoint
    event,                  \* the event the loop is handling
    lastKnownGoodEndpoint,  \* "" is unset
    electionActive,         \* the flag shared by the loop and the runners
    electionActiveWrites,   \* values written to the flag without ordering
    endpointContext,        \* endpointContext.Err(): "nil" or "Canceled"
    result,                 \* what watchEndpoint returns
    exitFunction,           \* number of close(exitFunction) calls
    shutdownChan,           \* TRUE once sm.shutdownChan is closed
    rwStopped,              \* number of rw.Stop() calls
    streamEnded,            \* the retry watcher closed its result channel
    supervisor,             \* position of the goroutine of lines 42-59
    runners,                \* number of runner goroutines at each position
    wgAdd,                  \* wg.Add(1) calls of this function
    nEvents,                \* events delivered so far
    egress,                 \* service.Annotations["kube-vip.io/egress"] == "true"
    activeEndpoint,         \* service.Annotations["kube-vip.io/active-endpoint"]
    steady                  \* history: every event so far was an Added or
                            \* Modified snapshot with a local endpoint, the
                            \* tracked one among them once one is tracked

\* what only the loop touches
loopVars == <<event, lastKnownGoodEndpoint, result, wgAdd, nEvents, egress,
              activeEndpoint, steady>>
\* the flag and the goroutines that write it
runnerVars == <<electionActive, electionActiveWrites, runners>>
\* the supervising goroutine
supervisorVars == <<supervisor, rwStopped>>
\* what the environment does
envVars == <<shutdownChan, streamEnded>>

watchVars == <<pc, loopVars, runnerVars, supervisorVars, envVars,
               endpointContext, exitFunction>>

\* updateServiceEndpointAnnotation and the Service it updates
VARIABLES
    upc,                    \* position of updateServiceEndpointAnnotation
    endpoint,               \* its endpoint argument
    service,                \* its service argument: the caller's copy
    stored,                 \* the Service as the API server stores it
    currentServiceCopy,     \* the copy the current attempt works on
    attempt,                \* attempts RetryOnConflict has started
    err,                    \* what the last attempt returned
    retryErr,               \* what updateServiceEndpointAnnotation returns
    writes,                 \* updates of the Service by another client
    first                   \* what an earlier call with the same arguments
                            \* returned and left stored

updateVars == <<upc, endpoint, service, stored, currentServiceCopy, attempt,
                err, retryErr, writes, first>>

vars == <<watchVars, updateVars>>

(***************************************************************************)
(* LocalEndpointResolver: lines 75-86.                                     *)
(***************************************************************************)
\* SubsetLocal with the comparison of line 80 lost: every address that has
\* a NodeName counts as local
RECURSIVE SubsetLocal_AnyNode(_, _)
SubsetLocal_AnyNode(addresses, nodeID) ==
    IF addresses = <<>> THEN <<>>
    ELSE LET a == Head(addresses)
             rest == SubsetLocal_AnyNode(Tail(addresses), nodeID)
         IN IF a.NodeName # <<>>
            THEN <<a.IP>> \o rest
            ELSE rest

\* lines 77-85: the addresses of one subset hosted on nodeID, in order
RECURSIVE SubsetLocal(_, _)
SubsetLocal(addresses, nodeID) ==
    IF addresses = <<>> THEN <<>>
    ELSE LET a == Head(addresses)
             rest == SubsetLocal(Tail(addresses), nodeID)
         IN IF a.NodeName # <<>> /\ nodeID = a.NodeName[1]
            THEN <<a.IP>> \o rest
            ELSE rest

\* lines 75-86: localendpoints of a snapshot
RECURSIVE LocalEndpoints(_, _)
LocalEndpoints(subsets, nodeID) ==
    IF subsets = <<>> THEN <<>>
    ELSE SubsetLocal(Head(subsets), nodeID)
         \o LocalEndpoints(Tail(subsets), nodeID)

\* lines 101-106
StillExists(localendpoints, last) ==
    \E x \in 1..Len(localendpoints) : localendpoints[x] = last

(***************************************************************************)
(* The Service object and its annotations.                                 *)
(***************************************************************************)
ActiveEndpointKey == "kube-vip.io/active-endpoint"

\* an annotation another client maintains
OtherKey == "example.com/revision"

\* A map[string]string: nil is the nil map, kv the entries otherwise.
NilMap == [nil |-> TRUE, kv |-> <<>>]

MakeMap == [nil |-> FALSE, kv |-> <<>>]

\* m[k] = v on a map that is not nil
SetKey(m, k, v) ==
    [nil |-> FALSE,
     kv |-> [x \in (DOMAIN m.kv) \cup {k} |-> IF x = k THEN v ELSE m.kv[x]]]

HasKey(m, k) == ~m.nil /\ k \in DOMAIN m.kv

\* the Services a call can find stored: with no annotations at all, with
\* another client's annotation, with an active endpoint already recorded
InitialAnnotations ==
    { NilMap,
      SetKey(MakeMap, OtherKey, 0),
      SetKey(SetKey(MakeMap, OtherKey, 0), ActiveEndpointKey, "10.0.0.5"),
      SetKey(MakeMap, ActiveEndpointKey, "10.0.0.6") }

NoService == [exists |-> FALSE, resourceVersion |-> 0, Annotations |-> NilMap]

\* no earlier call
NoCall == [called |-> FALSE, retryErr |-> "none", Annotations |-> NilMap]

(***************************************************************************)
(* Initial states.                                                         *)
(***************************************************************************)
\* updateServiceEndpointAnnotation is not called
UpdateIdle ==
    /\ upc = "idle"
    /\ endpoint = ""
    /\ service = NoService
    /\ stored = NoService
    /\ currentServiceCopy = NoService
    /\ attempt = 0
    /\ err = "none"
    /\ retryErr = "none"
    /\ writes = 0
    /\ first = NoCall

\* watchEndpoint is entered; lines 22-26 have run
WatchInit ==
    /\ pc = "l31"
    /\ event = NoEvent
    /\ lastKnownGoodEndpoint = ""
    /\ electionActive = FALSE
    /\ electionActiveWrites = {FALSE}
    /\ endpointContext = "nil"
    /\ result = "none"
    /\ exitFunction = 0
    /\ shutdownChan = FALSE
    /\ rwStopped = 0
    /\ streamEnded = FALSE
    /\ supervisor = "none"
    /\ runners = [p \in RunnerPcs |-> 0]
    /\ wgAdd = 0
    /\ nEvents = 0
    /\ egress \in BOOLEAN
    /\ activeEndpoint = ""
    /\ steady = TRUE

Init == WatchInit /\ UpdateIdle

(***************************************************************************)
(* watchEndpoint, the loop.                                                *)
(***************************************************************************)
\* lines 31-59: create the retry watcher and start the supervising goroutine
NewRetryWatcher ==
    /\ pc = "l31"
    /\ \E ok \in BOOLEAN :
        IF ok
        THEN /\ pc' = "l64"
             /\ supervisor' = "l43"
             /\ UNCHANGED <<endpointContext, result>>
        ELSE /\ endpointContext' = "Canceled"
             /\ result' = "error creating endpoint watcher"
             /\ pc' = "l26"
             /\ UNCHANGED supervisor
    /\ UNCHANGED <<event, lastKnownGoodEndpoint, wgAdd, nEvents, egress,
                   activeEndpoint, runnerVars, rwStopped, envVars,
                   exitFunction, steady>>
    /\ UNCHANGED updateVars

\* the result channel is closed by the retry watcher's own goroutine only:
\* rw.Stop() (lines 47, 54) asks it to stop and returns, and until the
\* goroutine has closed the channel it may still deliver an event
ResultChanClosed == streamEnded

\* the event is a snapshot with a local endpoint, and with the tracked
\* endpoint if there is one
KeepsTracked(e) ==
    /\ e.Type \in {"Added", "Modified"}
    /\ e.isEndpoints
    /\ LocalEndpoints(e.Subsets, id) # <<>>
    /\ lastKnownGoodEndpoint # ""
            => StillExists(LocalEndpoints(e.Subsets, id), lastKnownGoodEndpoint)

\* line 64: receive the next event
Receive ==
    /\ pc = "l64"
    /\ ~ResultChanClosed
    /\ nEvents < MaxEvents
    /\ \E e \in WatchEvents :
        /\ event' = e
        /\ steady' = (steady /\ KeepsTracked(e))
    /\ nEvents' = nEvents + 1
    /\ pc' = "l67"
    /\ UNCHANGED <<lastKnownGoodEndpoint, result, wgAdd, egress,
                   activeEndpoint, runnerVars, supervisorVars, envVars,
                   endpointContext, exitFunction>>
    /\ UNCHANGED updateVars

\* lines 64, 154-156: the channel is closed, the loop ends
ChannelClosed ==
    /\ pc = "l64"
    /\ ResultChanClosed
    /\ exitFunction' = exitFunction + 1
    /\ result' = "nil"
    /\ pc' = "l26"
    /\ UNCHANGED <<event, lastKnownGoodEndpoint, wgAdd, nEvents, egress,
                   activeEndpoint, steady, runnerVars, supervisorVars,
                   envVars, endpointContext>>
    /\ UNCHANGED updateVars

\* lines 69-73: the object is not a *v1.Endpoints
DecodeError ==
    /\ pc = "l67"
    /\ event.Type \in {"Added", "Modified"}
    /\ ~event.isEndpoints
    /\ endpointContext' = "Canceled"
    /\ result' = "unable to parse"
    /\ pc' = "l26"
    /\ UNCHANGED <<event, lastKnownGoodEndpoint, wgAdd, nEvents, egress,
                   activeEndpoint, steady, runnerVars, supervisorVars,
                   envVars, exitFunction>>
    /\ UNCHANGED updateVars

\* lines 90-99: local endpoints, none tracked: track the first one
TrackFirst(localendpoints) ==
    /\ lastKnownGoodEndpoint' = localendpoints[1]
    /\ wgAdd' = wgAdd + 1
    /\ activeEndpoint' = IF egress THEN localendpoints[1] ELSE activeEndpoint
    /\ pc' = "l114"
    /\ UNCHANGED endpointContext

\* CheckTracked with the break of line 108 lost: line 114 is reached even
\* though the tracked endpoint still exists
CheckTracked_NoBreak(localendpoints) ==
    IF StillExists(localendpoints, lastKnownGoodEndpoint)
    THEN /\ pc' = "l114"
         /\ UNCHANGED <<lastKnownGoodEndpoint, endpointContext, wgAdd,
                        activeEndpoint>>
    ELSE /\ endpointContext' = "Canceled"
         /\ pc' = "l114"
         /\ UNCHANGED <<lastKnownGoodEndpoint, wgAdd, activeEndpoint>>

\* lines 100-113: local endpoints, one tracked
CheckTracked(localendpoints) ==
    IF StillExists(localendpoints, lastKnownGoodEndpoint)
    THEN /\ pc' = "l64"
         /\ UNCHANGED <<lastKnownGoodEndpoint, endpointContext, wgAdd,
                        activeEndpoint>>
    ELSE /\ endpointContext' = "Canceled"
         /\ pc' = "l114"
         /\ UNCHANGED <<lastKnownGoodEndpoint, wgAdd, activeEndpoint>>

\* NoLocalEndpoint with the cancel() of line 137 lost
NoLocalEndpoint_KeepsToken ==
    /\ IF lastKnownGoodEndpoint # ""
       THEN /\ lastKnownGoodEndpoint' = ""
            /\ UNCHANGED endpointContext
       ELSE UNCHANGED <<lastKnownGoodEndpoint, endpointContext>>
    /\ pc' = "l64"
    /\ UNCHANGED <<wgAdd, activeEndpoint>>

\* lines 134-141: no local endpoint
NoLocalEndpoint ==
    /\ IF lastKnownGoodEndpoint # ""
       THEN /\ lastKnownGoodEndpoint' = ""
            /\ endpointContext' = "Canceled"
       ELSE UNCHANGED <<lastKnownGoodEndpoint, endpointContext>>
    /\ pc' = "l64"
    /\ UNCHANGED <<wgAdd, activeEndpoint>>

\* lines 68-113, 134-141: an Added or Modified event with a snapshot
AddedModified ==
    /\ pc = "l67"
    /\ event.Type \in {"Added", "Modified"}
    /\ event.isEndpoints
    /\ LET localendpoints == LocalEndpoints(event.Subsets, id)
       IN IF Len(localendpoints) # 0
          THEN IF lastKnownGoodEndpoint = ""
               THEN TrackFirst(localendpoints)
               ELSE CheckTracked(localendpoints)
          ELSE NoLocalEndpoint
    /\ event' = Handled(event)
    /\ UNCHANGED <<result, nEvents, egress, steady, runnerVars,
                   supervisorVars, envVars, exitFunction>>
    /\ UNCHANGED updateVars

\* The loop reads electionActive while runner goroutines write it, with
\* nothing ordering the accesses: the read observes the current value or
\* any value written by a runner.
ElectionActiveRead == {electionActive} \cup electionActiveWrites

\* lines 114-133: start a runner goroutine unless one is seen active
StartRunner ==
    /\ pc = "l114"
    /\ \E seen \in ElectionActiveRead :
        runners' = IF ~seen
                   THEN [runners EXCEPT !["l119"] = @ + 1]
                   ELSE runners
    /\ pc' = "l64"
    /\ UNCHANGED <<loopVars, electionActive, electionActiveWrites,
                   supervisorVars, envVars, endpointContext, exitFunction>>
    /\ UNCHANGED updateVars

\* Deleted with the close(exitFunction) of line 145 lost
Deleted_NoClose ==
    /\ pc = "l67"
    /\ event.Type = "Deleted"
    /\ result' = "nil"
    /\ pc' = "l26"
    /\ UNCHANGED <<event, lastKnownGoodEndpoint, wgAdd, nEvents, egress,
                   activeEndpoint, steady, runnerVars, supervisorVars,
                   envVars, endpointContext, exitFunction>>
    /\ UNCHANGED updateVars

\* Deleted without the return of line 146: exitFunction is closed and the
\* loop goes on to the next event
Deleted_NoReturn ==
    /\ pc = "l67"
    /\ event.Type = "Deleted"
    /\ exitFunction' = exitFunction + 1
    /\ pc' = "l64"
    /\ UNCHANGED <<event, lastKnownGoodEndpoint, wgAdd, nEvents, egress,
                   activeEndpoint, steady, runnerVars, supervisorVars,
                   envVars, endpointContext, result>>
    /\ UNCHANGED updateVars

\* lines 143-147
Deleted ==
    /\ pc = "l67"
    /\ event.Type = "Deleted"
    /\ exitFunction' = exitFunction + 1
    /\ result' = "nil"
    /\ pc' = "l26"
    /\ UNCHANGED <<event, lastKnownGoodEndpoint, wgAdd, nEvents, egress,
                   activeEndpoint, steady, runnerVars, supervisorVars,
                   envVars, endpointContext>>
    /\ UNCHANGED updateVars

\* Error handled as the end of the watch: cancel() and leave the loop
Error_EndsWatch ==
    /\ pc = "l67"
    /\ event.Type = "Error"
    /\ endpointContext' = "Canceled"
    /\ pc' = "l26"
    /\ result' = "nil"
    /\ event' = Handled(event)
    /\ UNCHANGED <<lastKnownGoodEndpoint, wgAdd, nEvents, egress,
                   activeEndpoint, steady, runnerVars, supervisorVars,
                   envVars, exitFunction>>
    /\ UNCHANGED updateVars

\* lines 148-152
Error ==
    /\ pc = "l67"
    /\ event.Type = "Error"
    /\ pc' = "l64"
    /\ event' = Handled(event)
    /\ UNCHANGED <<lastKnownGoodEndpoint, result, wgAdd, nEvents, egress,
                   activeEndpoint, steady, runnerVars, supervisorVars,
                   envVars, endpointContext, exitFunction>>
    /\ UNCHANGED updateVars

\* line 26: the deferred cancel() runs as watchEndpoint returns
DeferredCancel ==
    /\ pc = "l26"
    /\ endpointContext' = "Canceled"
    /\ pc' = "returned"
    /\ UNCHANGED <<loopVars, runnerVars, supervisorVars, envVars,
                   exitFunction>>
    /\ UNCHANGED updateVars

(***************************************************************************)
(* The supervising goroutine, lines 42-59.                                 *)
(***************************************************************************)
\* lines 43-45, 51-52: select on shutdownChan and exitFunction; when both
\* are ready either case is taken
SupervisorSelect ==
    /\ supervisor = "l43"
    /\ \/ shutdownChan /\ supervisor' = "l47"
       \/ exitFunction > 0 /\ supervisor' = "l54"
    /\ UNCHANGED <<pc, loopVars, runnerVars, rwStopped, envVars,
                   endpointContext, exitFunction>>
    /\ UNCHANGED updateVars

\* lines 47, 54: rw.Stop()
SupervisorStop ==
    /\ supervisor \in {"l47", "l54"}
    /\ rwStopped' = rwStopped + 1
    /\ supervisor' = IF supervisor = "l47" THEN "l49" ELSE "l56"
    /\ UNCHANGED <<pc, loopVars, runnerVars, envVars, endpointContext,
                   exitFunction>>
    /\ UNCHANGED updateVars

\* lines 49-50, 56-57: cancel(), and the goroutine ends
SupervisorCancel ==
    /\ supervisor \in {"l49", "l56"}
    /\ endpointContext' = "Canceled"
    /\ supervisor' = "exit"
    /\ UNCHANGED <<pc, loopVars, runnerVars, rwStopped, envVars,
                   exitFunction>>
    /\ UNCHANGED updateVars

(***************************************************************************)
(* The election-runner goroutines, lines 115-132.                          *)
(***************************************************************************)
\* one runner goroutine moves from one line to another
RunnerStep(from, to) ==
    /\ runners[from] > 0
    /\ runners' = [runners EXCEPT ![from] = @ - 1, ![to] = @ + 1]

\* RunnerCheck with the test of line 119 lost: the election is restarted
\* whatever the state of the context
RunnerCheck_IgnoresCancel ==
    /\ RunnerStep("l119", "l120")
    /\ UNCHANGED <<pc, loopVars, electionActive, electionActiveWrites,
                   supervisorVars, envVars, endpointContext, exitFunction>>
    /\ UNCHANGED updateVars

\* line 119
RunnerCheck ==
    /\ IF endpointContext # "Canceled"
       THEN RunnerStep("l119", "l120")
       ELSE RunnerStep("l119", "l127")
    /\ UNCHANGED <<pc, loopVars, electionActive, electionActiveWrites,
                   supervisorVars, envVars, endpointContext, exitFunction>>
    /\ UNCHANGED updateVars

\* line 120
RunnerSetActive ==
    /\ RunnerStep("l120", "l121")
    /\ electionActive' = TRUE
    /\ electionActiveWrites' = electionActiveWrites \cup {TRUE}
    /\ UNCHANGED <<pc, loopVars, supervisorVars, envVars, endpointContext,
                   exitFunction>>
    /\ UNCHANGED updateVars

\* line 121: call sm.StartServicesLeaderElection(endpointContext, ...)
RunnerStartElection ==
    /\ RunnerStep("l121", "election")
    /\ UNCHANGED <<pc, loopVars, electionActive, electionActiveWrites,
                   supervisorVars, envVars, endpointContext, exitFunction>>
    /\ UNCHANGED updateVars

\* line 121: the election task returns, with or without an error (which
\* line 124 only logs), because it failed or its context was cancelled
ElectionReturns ==
    /\ RunnerStep("election", "l122")
    /\ UNCHANGED <<pc, loopVars, electionActive, electionActiveWrites,
                   supervisorVars, envVars, endpointContext, exitFunction>>
    /\ UNCHANGED updateVars

\* RunnerSetInactive leaving the loop of line 118 after the first return of
\* the election task instead of going round it again
RunnerSetInactive_Exits ==
    /\ RunnerStep("l122", "l131")
    /\ electionActive' = FALSE
    /\ electionActiveWrites' = electionActiveWrites \cup {FALSE}
    /\ UNCHANGED <<pc, loopVars, supervisorVars, envVars, endpointContext,
                   exitFunction>>
    /\ UNCHANGED updateVars

\* lines 122-125
RunnerSetInactive ==
    /\ RunnerStep("l122", "l119")
    /\ electionActive' = FALSE
    /\ electionActiveWrites' = electionActiveWrites \cup {FALSE}
    /\ UNCHANGED <<pc, loopVars, supervisorVars, envVars, endpointContext,
                   exitFunction>>
    /\ UNCHANGED updateVars

\* lines 127-128
RunnerBreak ==
    /\ RunnerStep("l127", "l131")
    /\ electionActive' = FALSE
    /\ electionActiveWrites' = electionActiveWrites \cup {FALSE}
    /\ UNCHANGED <<pc, loopVars, supervisorVars, envVars, endpointContext,
                   exitFunction>>
    /\ UNCHANGED updateVars

\* line 131: wg.Done(), and the goroutine ends
RunnerDone ==
    /\ RunnerStep("l131", "exit")
    /\ UNCHANGED <<pc, loopVars, electionActive, electionActiveWrites,
                   supervisorVars, envVars, endpointContext, exitFunction>>
    /\ UNCHANGED updateVars

\* wg.Done() calls made by the runners so far (line 131)
wgDone == runners["exit"]

(***************************************************************************)
(* The environment.                                                        *)
(***************************************************************************)
\* sm.shutdownChan is closed (line 44 is its receiver)
Shutdown ==
    /\ ~shutdownChan
    /\ shutdownChan' = TRUE
    /\ UNCHANGED <<pc, loopVars, runnerVars, supervisorVars, streamEnded,
                   endpointContext, exitFunction>>
    /\ UNCHANGED updateVars

\* the retry watcher's goroutine closes its result channel, after rw.Stop()
\* or because it gives up by itself (line 64 ends)
StreamEnds ==
    /\ supervisor # "none"
    /\ ~streamEnded
    /\ streamEnded' = TRUE
    /\ UNCHANGED <<pc, loopVars, runnerVars, supervisorVars, shutdownChan,
                   endpointContext, exitFunction>>
    /\ UNCHANGED updateVars

Loop ==
    \/ NewRetryWatcher
    \/ Receive
    \/ ChannelClosed
    \/ DecodeError
    \/ AddedModified
    \/ StartRunner
    \/ Deleted
    \/ Error
    \/ DeferredCancel

Supervisor ==
    \/ SupervisorSelect
    \/ SupervisorStop
    \/ SupervisorCancel

Runner ==
    \/ RunnerCheck
    \/ RunnerSetActive
    \/ RunnerStartElection
    \/ ElectionReturns
    \/ RunnerSetInactive
    \/ RunnerBreak
    \/ RunnerDone

Next ==
    \/ Loop
    \/ Supervisor
    \/ Runner
    \/ Shutdown
    \/ StreamEnds

Spec == Init /\ [][Next]_vars

(***************************************************************************)
(* updateServiceEndpointAnnotation, lines 159-200.                         *)
(***************************************************************************)
\* it is called for a stored Service, of which the caller holds a copy
UpdateInit ==
    /\ WatchInit
    /\ egress = FALSE
    /\ upc = "l163"
    /\ endpoint \in {"10.0.0.5", "10.0.0.6"}
    /\ \E a \in InitialAnnotations :
        stored = [exists |-> TRUE, resourceVersion |-> 1, Annotations |-> a]
    /\ service = stored
    /\ currentServiceCopy = NoService
    /\ attempt = 1
    /\ err = "none"
    /\ retryErr = "none"
    /\ writes = 0
    /\ first = NoCall

\* WithActiveEndpoint making a new map for the copy whatever it holds
WithActiveEndpoint_NewMap(currentService) ==
    [currentService EXCEPT
        !.Annotations = SetKey(MakeMap, ActiveEndpointKey, endpoint)]

\* GetService replaced by the service argument: no Get, the caller's copy
GetService_Cached == service

\* line 163: the Service the Get returns
GetService == stored

\* lines 173-178: the copy, with the annotation set
WithActiveEndpoint(currentService) ==
    [currentService EXCEPT
        !.Annotations =
            SetKey(IF currentService.Annotations.nil
                   THEN MakeMap
                   ELSE currentService.Annotations,
                   ActiveEndpointKey, endpoint)]

\* Retriable accepting every error
Retriable_Any(e) == TRUE

\* line 160: RetryOnConflict retries the errors apierrors.IsConflict accepts
Retriable(e) == e = "Conflict"

\* lines 160, 165, 183, 193-199: the attempt returned the error e.
\* RetryOnConflict starts another attempt if e is a conflict and attempts
\* remain, and returns e otherwise.
AttemptFailed(e) ==
    /\ err' = e
    /\ IF Retriable(e) /\ attempt < DefaultRetrySteps
       THEN /\ attempt' = attempt + 1
            /\ upc' = "l163"
            /\ UNCHANGED retryErr
       ELSE /\ retryErr' = e
            /\ upc' = "done"
            /\ UNCHANGED attempt

\* lines 163-178: get the stored Service, copy it, set the annotation
Get ==
    /\ upc = "l163"
    /\ \/ /\ ~stored.exists
          /\ AttemptFailed("NotFound")
          /\ UNCHANGED currentServiceCopy
       \/ /\ AttemptFailed("ServerError")
          /\ UNCHANGED currentServiceCopy
       \/ /\ stored.exists
          /\ currentServiceCopy' = WithActiveEndpoint(GetService)
          /\ upc' = "l180"
          /\ UNCHANGED <<attempt, err, retryErr>>
    /\ UNCHANGED <<endpoint, service, stored, writes, first, watchVars>>

\* lines 180-192: write the copy back; the API server refuses a copy whose
\* resourceVersion is not the stored one
Update ==
    /\ upc = "l180"
    /\ \/ /\ ~stored.exists
          /\ AttemptFailed("NotFound")
          /\ UNCHANGED stored
       \/ /\ AttemptFailed("ServerError")
          /\ UNCHANGED stored
       \/ /\ stored.exists
          /\ currentServiceCopy.resourceVersion # stored.resourceVersion
          /\ AttemptFailed("Conflict")
          /\ UNCHANGED stored
       \/ /\ stored.exists
          /\ currentServiceCopy.resourceVersion = stored.resourceVersion
          /\ stored' = [currentServiceCopy EXCEPT
                            !.resourceVersion = stored.resourceVersion + 1]
          /\ err' = "nil"
          /\ retryErr' = "nil"
          /\ upc' = "done"
          /\ UNCHANGED attempt
    /\ UNCHANGED <<endpoint, service, currentServiceCopy, writes, first,
                   watchVars>>

\* another client updates the stored Service while the call is under way
ConcurrentWrite ==
    /\ upc \in {"l163", "l180"}
    /\ stored.exists
    /\ writes < MaxWrites
    /\ writes' = writes + 1
    /\ stored' = [stored EXCEPT
                    !.resourceVersion = @ + 1,
                    !.Annotations =
                        SetKey(IF @.nil THEN MakeMap ELSE @, OtherKey,
                               writes + 1)]
    /\ UNCHANGED <<upc, endpoint, service, currentServiceCopy, attempt, err,
                   retryErr, first, watchVars>>

\* the Service is deleted while the call is under way
DeleteService ==
    /\ upc \in {"l163", "l180"}
    /\ stored.exists
    /\ stored' = [stored EXCEPT !.exists = FALSE]
    /\ UNCHANGED <<upc, endpoint, service, currentServiceCopy, attempt, err,
                   retryErr, writes, first, watchVars>>

UpdateNext ==
    \/ Get
    \/ Update
    \/ ConcurrentWrite
    \/ DeleteService

UpdateSpec == UpdateInit /\ [][UpdateNext]_vars

\* line 159: the call has returned and updateServiceEndpointAnnotation is
\* called again with the same endpoint and service
CallAgain ==
    /\ upc = "done"
    /\ ~first.called
    /\ first' = [called |-> TRUE, retryErr |-> retryErr,
                 Annotations |-> stored.Annotations]
    /\ upc' = "l163"
    /\ attempt' = 1
    /\ err' = "none"
    /\ retryErr' = "none"
    /\ UNCHANGED <<endpoint, service, stored, currentServiceCopy, writes,
                   watchVars>>

TwiceNext ==
    \/ Get
    \/ Update
    \/ ConcurrentWrite
    \/ DeleteService
    \/ CallAgain

\* two calls in succession
TwiceSpec == UpdateInit /\ [][TwiceNext]_vars

(***************************************************************************)
(* Fairness.  The Go scheduler runs every runnable goroutine: the loop     *)
(* once it holds an event or its channel is closed, the supervising        *)
(* goroutine once a case of its select is ready, the runners.  Nothing     *)
(* obliges the environment to deliver an event, to shut down or to end     *)
(* the stream, and an election returns for certain only once its context   *)
(* is cancelled.                                                           *)
(***************************************************************************)
LoopProgress ==
    \/ NewRetryWatcher
    \/ ChannelClosed
    \/ DecodeError
    \/ AddedModified
    \/ StartRunner
    \/ Deleted
    \/ Error
    \/ DeferredCancel

RunnerProgress ==
    \/ RunnerCheck
    \/ RunnerSetActive
    \/ RunnerStartElection
    \/ (endpointContext = "Canceled" /\ ElectionReturns)
    \/ RunnerSetInactive
    \/ RunnerBreak
    \/ RunnerDone

\* The eventual properties are checked for a service that carries the
\* egress annotation, the case in which lines 97-99 write to the service;
\* the annotation has no part in the control flow.
FairInit == Init /\ egress

FairSpec ==
    /\ FairInit
    /\ [][Next]_vars
    /\ WF_vars(LoopProgress)
    /\ WF_vars(Supervisor)
    /\ WF_vars(RunnerProgress)

(***************************************************************************)
(* Vocabulary of the properties.                                           *)
(***************************************************************************)
\* runner goroutines launched so far
Launched ==
    runners["l119"] + runners["l120"] + runners["l121"] + runners["election"]
    + runners["l122"] + runners["l127"] + runners["l131"] + runners["exit"]

\* runner goroutines that have not ended
LiveRunners == Launched - runners["exit"]

\* events whose handling is complete
Processed == IF pc \in {"l67", "l114"} THEN nEvents - 1 ELSE nEvents

\* the step is the loop handling the event it holds (lines 67-152)
HandlesEvent == pc = "l67" /\ pc' # "l67"

\* localendpoints of the event the loop holds
Resolved == LocalEndpoints(event.Subsets, id)

\* watchEndpoint is returning or has returned
Returning == pc \in {"l26", "returned"}

(***************************************************************************)
(* C1  No-overlap: in every reachable state at most one invocation of      *)
(* StartServicesLeaderElection is running for the service.                 *)
(***************************************************************************)
C1_NoOverlap == runners["election"] <= 1

\* an election runs while a second runner goroutine is alive
C1_Witness == runners["election"] = 1 /\ LiveRunners >= 2

(***************************************************************************)
(* C2  Restart-on-loss, as claimed: when the loop records a tracked        *)
(* address again after an earlier epoch ended, the epoch it starts has a   *)
(* token that is not cancelled.  (No shutdown and no exit is under way,    *)
(* so only the end of the earlier epoch can have cancelled it.)            *)
(***************************************************************************)
C2_RestartOnLoss ==
    [][(/\ lastKnownGoodEndpoint = ""
        /\ lastKnownGoodEndpoint' # ""
        /\ wgAdd >= 1
        /\ ~shutdownChan'
        /\ exitFunction' = 0)
       => endpointContext' = "nil"]_vars

(***************************************************************************)
(* C3  Start-once: while every event is an Added or Modified snapshot      *)
(* with a local endpoint and the tracked address stays present, exactly    *)
(* one runner goroutine has been launched once the first event is          *)
(* handled, and handling a later event neither cancels the token nor       *)
(* changes lastKnownGoodEndpoint nor launches a runner.                    *)
(***************************************************************************)
C3_StartOnce ==
    /\ []((steady /\ Processed >= 1)
            => (Launched = 1 /\ lastKnownGoodEndpoint # ""))
    /\ [][(steady /\ HandlesEvent /\ lastKnownGoodEndpoint # "")
            => /\ lastKnownGoodEndpoint' = lastKnownGoodEndpoint
               /\ endpointContext' = endpointContext
               /\ runners' = runners
               /\ pc' = "l64"]_vars

\* three such events handled, one runner, its election running
C3_Witness ==
    /\ steady
    /\ Processed >= 3
    /\ Launched = 1
    /\ runners["election"] = 1
    /\ endpointContext = "nil"

(***************************************************************************)
(* C4  Idle-on-empty: handling an Added or Modified snapshot with no       *)
(* local endpoint, when an address is tracked, unsets                      *)
(* lastKnownGoodEndpoint and cancels the token; when none is tracked it    *)
(* changes nothing.                                                        *)
(***************************************************************************)
C4_IdleOnEmpty ==
    [][(/\ HandlesEvent
        /\ event.Type \in {"Added", "Modified"}
        /\ event.isEndpoints
        /\ Resolved = <<>>)
       => IF lastKnownGoodEndpoint # ""
          THEN /\ lastKnownGoodEndpoint' = ""
               /\ endpointContext' = "Canceled"
               /\ pc' = "l64"
          ELSE /\ pc' = "l64"
               /\ UNCHANGED <<lastKnownGoodEndpoint, endpointContext,
                              runnerVars, supervisorVars, envVars, result,
                              wgAdd, activeEndpoint, exitFunction>>]_vars

\* an epoch was started and the loop itself ended it on an empty snapshot:
\* nothing else has cancelled the token
C4_Witness ==
    /\ pc = "l64"
    /\ event.Type \in {"Added", "Modified"}
    /\ wgAdd = 1
    /\ lastKnownGoodEndpoint = ""
    /\ endpointContext = "Canceled"
    /\ supervisor = "l43"

(***************************************************************************)
(* C5  Deleted-terminates: handling a Deleted event closes exitFunction    *)
(* and returns nil; no event is received afterwards; the token is          *)
(* cancelled once watchEndpoint has returned; and in the end the watch     *)
(* session is stopped and every runner, with its election, has ended.      *)
(***************************************************************************)
DeletedHandled == Returning /\ event.Type = "Deleted"

C5_DeletedTerminates ==
    /\ [][(HandlesEvent /\ event.Type = "Deleted")
            => /\ pc' = "l26"
               /\ result' = "nil"
               /\ exitFunction' = exitFunction + 1]_vars
    /\ [][Returning => (nEvents' = nEvents /\ Returning'
                        /\ lastKnownGoodEndpoint' = lastKnownGoodEndpoint)]_vars
    /\ []((DeletedHandled /\ pc = "returned")
            => (endpointContext = "Canceled" /\ result = "nil"))
    /\ DeletedHandled ~> (/\ pc = "returned"
                          /\ rwStopped > 0
                          /\ endpointContext = "Canceled"
                          /\ LiveRunners = 0)

\* Deleted arrived while an election ran; now all of it has stopped
C5_Witness ==
    /\ DeletedHandled
    /\ pc = "returned"
    /\ ~shutdownChan
    /\ rwStopped = 1
    /\ runners["exit"] = 1
    /\ TRUE \in electionActiveWrites

(***************************************************************************)
(* C6  Decode error cleans up, as claimed: when watchEndpoint has          *)
(* returned the decode error and no shutdown has been signalled, the       *)
(* supervising goroutine has been released to stop the watch session       *)
(* (exitFunction is closed): nothing but the loop closes exitFunction, so  *)
(* otherwise rw.Stop() is never called unless a shutdown comes.            *)
(***************************************************************************)
C6_DecodeErrorStopsWatch ==
    (pc = "returned" /\ result = "unable to parse" /\ ~shutdownChan)
        => (exitFunction > 0 \/ rwStopped > 0)

(***************************************************************************)
(* C7  External shutdown, as claimed: once the supervising goroutine has   *)
(* observed the shutdown signal (it is past line 44), no event is          *)
(* handled: lastKnownGoodEndpoint does not change and no runner is         *)
(* launched.                                                               *)
(***************************************************************************)
ShutdownObserved == supervisor \in {"l47", "l49"}

C7_ShutdownPreempts ==
    [][ShutdownObserved
        => /\ lastKnownGoodEndpoint' = lastKnownGoodEndpoint
           /\ Launched' = Launched]_vars

(***************************************************************************)
(* C8  Error events are inert: handling an Error event changes neither     *)
(* lastKnownGoodEndpoint, electionActive, the token nor the watch          *)
(* session, and the loop goes back to receive the next event.              *)
(***************************************************************************)
C8_ErrorInert ==
    [][(HandlesEvent /\ event.Type = "Error")
       => /\ pc' = "l64"
          /\ UNCHANGED <<lastKnownGoodEndpoint, electionActive,
                         endpointContext, rwStopped, streamEnded,
                         exitFunction, runners, result, wgAdd>>]_vars

\* an Error event was handled during an epoch: the address is still
\* tracked, the election still runs and the loop waits for the next event
C8_Witness ==
    /\ pc = "l64"
    /\ event.Type = "Error"
    /\ lastKnownGoodEndpoint # ""
    /\ endpointContext = "nil"
    /\ runners["election"] = 1
    /\ rwStopped = 0

(***************************************************************************)
(* C9  Annotation retry semantics: every attempt works on a copy of the    *)
(* Service as stored when the attempt gets it; another attempt follows     *)
(* only an update refused for a conflict; a conflict is returned only      *)
(* when all attempts of the budget are used; an attempt that fails         *)
(* otherwise is the last one, its error is returned, and it leaves the     *)
(* stored Service as it was.                                               *)
(***************************************************************************)
NonConflict == {"NotFound", "ServerError"}

C9_RetrySemantics ==
    /\ [][(upc = "l163" /\ upc' = "l180")
            => currentServiceCopy' = WithActiveEndpoint(stored)]_vars
    /\ [][(upc' = "l163" /\ attempt' # attempt)
            => /\ upc = "l180"
               /\ attempt' = attempt + 1
               /\ currentServiceCopy.resourceVersion # stored.resourceVersion
               /\ err' = "Conflict"
               /\ stored' = stored]_vars
    /\ []((upc = "done" /\ retryErr = "Conflict")
            => attempt = DefaultRetrySteps)
    /\ [](err \in NonConflict => (upc = "done" /\ retryErr = err))
    /\ [][(err' \in NonConflict /\ err' # err) => stored' = stored]_vars

\* every attempt of the budget met a conflict
C9_Witness ==
    /\ upc = "done"
    /\ retryErr = "Conflict"
    /\ attempt = DefaultRetrySteps
    /\ writes >= DefaultRetrySteps

(***************************************************************************)
(* C10  Conflict recovery: when another client has updated the stored      *)
(* Service fewer times than there are attempts, and no attempt failed      *)
(* for another reason, the call returns nil, the stored active-endpoint    *)
(* annotation is the requested address, and the other annotations are as   *)
(* the other client left them.                                             *)
(***************************************************************************)
\* the annotations of m other than the active endpoint
Others(m) ==
    IF m.nil THEN <<>>
    ELSE [k \in (DOMAIN m.kv) \ {ActiveEndpointKey} |-> m.kv[k]]

C10_ConflictRecovery ==
    (upc = "done" /\ writes < DefaultRetrySteps /\ retryErr \notin NonConflict)
        => /\ retryErr = "nil"
           /\ stored.exists
           /\ HasKey(stored.Annotations, ActiveEndpointKey)
           /\ stored.Annotations.kv[ActiveEndpointKey] = endpoint
           /\ Others(stored.Annotations)
                = IF writes = 0
                  THEN Others(service.Annotations)
                  ELSE Others(SetKey(service.Annotations, OtherKey, writes))

\* the call succeeded at a later attempt, after conflicts
C10_Witness ==
    /\ upc = "done"
    /\ retryErr = "nil"
    /\ attempt >= 3
    /\ writes >= 2
    /\ stored.Annotations.kv[ActiveEndpointKey] = endpoint
    /\ stored.Annotations.kv[OtherKey] = writes

(***************************************************************************)
(* C11  Annotation idempotence: two calls in succession with the same      *)
(* address, with no update by another client and no failure of the API     *)
(* server, both return nil; the stored active-endpoint annotation after    *)
(* the second call is the one after the first, the requested address;      *)
(* the other annotations are those the Service had before the calls.       *)
(***************************************************************************)
C11_AnnotationIdempotent ==
    (/\ upc = "done"
     /\ first.called
     /\ writes = 0
     /\ first.retryErr \notin NonConflict
     /\ retryErr \notin NonConflict)
        => /\ first.retryErr = "nil"
           /\ retryErr = "nil"
           /\ HasKey(first.Annotations, ActiveEndpointKey)
           /\ HasKey(stored.Annotations, ActiveEndpointKey)
           /\ stored.Annotations.kv[ActiveEndpointKey] = endpoint
           /\ stored.Annotations.kv[ActiveEndpointKey]
                = first.Annotations.kv[ActiveEndpointKey]
           /\ Others(first.Annotations) = Others(service.Annotations)
           /\ Others(stored.Annotations) = Others(service.Annotations)

\* both calls have written a Service that has another annotation
C11_Witness ==
    /\ upc = "done"
    /\ first.called
    /\ writes = 0
    /\ first.retryErr = "nil"
    /\ retryErr = "nil"
    /\ stored.resourceVersion = 3
    /\ HasKey(stored.Annotations, OtherKey)
    /\ stored.Annotations.kv[ActiveEndpointKey] = endpoint

(***************************************************************************)
(* C12  Loss of the tracked endpoint, as claimed: handling an Added or     *)
(* Modified snapshot whose local endpoints are not empty and do not        *)
(* include lastKnownGoodEndpoint cancels the token and unsets              *)
(* lastKnownGoodEndpoint.                                                  *)
(***************************************************************************)
C12_LossClearsTracked ==
    [][(/\ HandlesEvent
        /\ event.Type \in {"Added", "Modified"}
        /\ event.isEndpoints
        /\ Resolved # <<>>
        /\ lastKnownGoodEndpoint # ""
        /\ ~StillExists(Resolved, lastKnownGoodEndpoint))
       => /\ endpointContext' = "Canceled"
          /\ lastKnownGoodEndpoint' = ""]_vars

(***************************************************************************)
(* C13  electionActive accuracy, as claimed: whenever the loop is about    *)
(* to read electionActive (line 114), the flag is true exactly if a        *)
(* runner goroutine has been launched and has not ended.                   *)
(***************************************************************************)
C13_ElectionActiveAccurate ==
    pc = "l114" => (electionActive <=> LiveRunners > 0)

(***************************************************************************)
(* C14  Synchronous stop, as claimed: when the loop has stopped the        *)
(* election (it alone has cancelled the token: no shutdown, no exit) and   *)
(* handles a later event, no election task is running.                     *)
(***************************************************************************)
C14_SynchronousStop ==
    (/\ pc = "l67"
     /\ endpointContext = "Canceled"
     /\ ~shutdownChan
     /\ exitFunction = 0)
        => runners["election"] = 0

(***************************************************************************)
(* C15  Runner restart discipline.                                         *)
(***************************************************************************)

\* runners that have passed the test of line 119 and have not yet called
\* the election task (lines 120-121)
Passed == runners["l120"] + runners["l121"]

\* C15 as claimed, its last part: once the token is cancelled, no runner
\* starts the election task.
C15_NeverStartsOnceCancelled ==
    [][endpointContext = "Canceled"
         => runners'["election"] <= runners["election"]]_vars

\* C15, amended: after the election task returns the runner goes back to
\* the test of line 119; the test sends it to the election task again
\* exactly if the token is not cancelled, and to the exit otherwise; once
\* the token is cancelled no runner passes the test any more, so only a
\* runner that had passed it before the cancellation still calls the
\* election task, once; and once the token is cancelled every runner
\* eventually ends.
C15_RestartDiscipline ==
    /\ [][runners'["l122"] < runners["l122"]
            => runners'["l119"] = runners["l119"] + 1]_vars
    /\ [][runners'["l119"] < runners["l119"]
            => IF endpointContext = "Canceled"
               THEN runners'["l127"] = runners["l127"] + 1
               ELSE runners'["l120"] = runners["l120"] + 1]_vars
    /\ [][endpointContext = "Canceled"
            => Passed' + runners'["election"]
                 <= Passed + runners["election"]]_vars
    /\ (endpointContext = "Canceled") ~> (LiveRunners = 0)

\* the only runner has passed the test of line 119 again, after the election
\* task it had started returned under a token that is not cancelled
C15_Witness ==
    /\ Launched = 1
    /\ runners["l120"] = 1
    /\ TRUE \in electionActiveWrites
    /\ endpointContext = "nil"

(***************************************************************************)
(* C16  Single close of the exit signal: exitFunction is closed at most    *)
(* once on every path through watchEndpoint, and the supervising           *)
(* goroutine stops the watcher at most once.                               *)
(***************************************************************************)
C16_SingleClose ==
    /\ exitFunction <= 1
    /\ rwStopped <= 1

\* the function has returned after closing exitFunction while shutdown was
\* signalled too, and the supervising goroutine has done its teardown
C16_Witness ==
    /\ pc = "returned"
    /\ exitFunction = 1
    /\ shutdownChan
    /\ supervisor = "exit"
    /\ rwStopped = 1

(***************************************************************************)
(* C17  Local endpoint resolution.                                         *)
(***************************************************************************)
MaxSubsets == 2
MaxAddresses == 2

NodeIDs == {"node-1", "node-2"}

ResolveAddresses ==
    {Local("10.0.0.5"), Local("10.0.0.6"), Remote("10.0.0.6"),
     Unscheduled("10.0.0.5")}

SeqsUpTo(S, n) == UNION {[1..k -> S] : k \in 0..n}

\* every ep.Subsets of at most MaxSubsets subsets of at most MaxAddresses
\* addresses
ResolveSnapshots ==
    SeqsUpTo(SeqsUpTo(ResolveAddresses, MaxAddresses), MaxSubsets)

\* the loop holds the first event of a watch, an Added snapshot, at line 67
ResolveInit ==
    /\ pc = "l67"
    /\ event \in [Type : {"Added"}, isEndpoints : {TRUE},
                  Subsets : ResolveSnapshots]
    /\ lastKnownGoodEndpoint = ""
    /\ electionActive = FALSE
    /\ electionActiveWrites = {FALSE}
    /\ endpointContext = "nil"
    /\ result = "none"
    /\ exitFunction = 0
    /\ shutdownChan = FALSE
    /\ rwStopped = 0
    /\ streamEnded = FALSE
    /\ supervisor = "l43"
    /\ runners = [p \in RunnerPcs |-> 0]
    /\ wgAdd = 0
    /\ nEvents = 1
    /\ egress = TRUE
    /\ activeEndpoint = ""
    /\ steady = TRUE
    /\ UpdateIdle

ResolveNext == AddedModified \/ StartRunner

ResolveSpec == ResolveInit /\ [][ResolveNext]_vars

\* all addresses of a snapshot, subset after subset
RECURSIVE Flatten(_)
Flatten(subsets) ==
    IF subsets = <<>> THEN <<>>
    ELSE Head(subsets) \o Flatten(Tail(subsets))

\* the IPs of the addresses of a snapshot whose NodeName is present and
\* equal to nodeID, in the order of the snapshot
HostedOn(subsets, nodeID) ==
    LET Hosted(a) == a.NodeName = <<nodeID>>
        hosted == SelectSeq(Flatten(subsets), Hosted)
    IN [i \in 1..Len(hosted) |-> hosted[i].IP]

\* C17: for every snapshot and node id the resolved list is exactly the
\* addresses whose NodeName is present and equal to the node id, over all
\* subsets, in the order of the snapshot; and when lastKnownGoodEndpoint is
\* unset and the list is not empty, handling the event records the list's
\* first element.
C17_LocalResolution ==
    /\ [](pc = "l67" =>
            \A n \in NodeIDs :
                LocalEndpoints(event.Subsets, n) = HostedOn(event.Subsets, n))
    /\ [][(/\ HandlesEvent
           /\ lastKnownGoodEndpoint = ""
           /\ HostedOn(event.Subsets, id) # <<>>)
          => lastKnownGoodEndpoint' = Head(HostedOn(event.Subsets, id))]_vars

\* a snapshot whose first local address is 10.0.0.6 has been handled and
\* that address recorded
C17_Witness ==
    /\ pc = "l114"
    /\ lastKnownGoodEndpoint = "10.0.0.6"
    /\ wgAdd = 1

(***************************************************************************)
(* C18  The WaitGroup is never over-released, as claimed: the number of    *)
(* wg.Done() calls never exceeds the number of wg.Add(1) calls.            *)
(***************************************************************************)
C18_NeverOverReleased == wgDone <= wgAdd

(***************************************************************************)
(* C19  The WaitGroup is eventually balanced, as claimed: once             *)
(* watchEndpoint has returned and every runner goroutine has ended, every  *)
(* wg.Add(1) has been matched by a wg.Done().                              *)
(***************************************************************************)
C19_EveryAddMatched ==
    (pc = "returned" /\ LiveRunners = 0) => wgAdd <= wgDone

(***************************************************************************)
(* C20  No election outlives the controller, as claimed: after             *)
(* watchEndpoint has returned, no election task is started.                *)
(***************************************************************************)
C20_NoStartAfterReturn ==
    [][pc = "returned" => runners'["election"] <= runners["election"]]_vars

====
